---------------------------- MODULE Spec2Model ----------------------------
(***************************************************************************)
(* The automated data-collection loop of                                   *)
(* scripts/data_collection_automatic.py (main, lines 274-446): the episode *)
(* orchestrator that presses simulated keys, steps the world, polls the    *)
(* grasp state machine under tick budgets and tallies the attempts.        *)
(*                                                                         *)
(* The grasp state machine (src.state_machine) and the keyboard handler    *)
(* (src.input) are not part of the sources at hand; they are modelled from *)
(* the interface contract of the specification (sections 2 and 6) as a     *)
(* nondeterministic black box.                                             *)
(*                                                                         *)
(* frame_count (lines 290, 312, 332, 385, 417) is only handed to the       *)
(* visualiser; it is carried in FrameSpec alone, which follows the run for *)
(* its first MaxFrames stepper calls, and stays 0 elsewhere.  step_count   *)
(* and idle_step_count are dropped to 0 at the point after which the code  *)
(* never reads them again before re-initialising them (line 360, line      *)
(* 401, end of the reset wait).                                            *)
(*                                                                         *)
(* Spec is the loop alone; RunSpec adds the exceptions a call of the loop  *)
(* may raise, the two handlers, the finally block and the returns (lines   *)
(* 449-469); TickSpec records the calls of every loop iteration for        *)
(* launches with and without rendering and camera controller.              *)
(***************************************************************************)
EXTENDS Integers, Sequences, FiniteSets, TLC

VARIABLES
    pc,                      \* position of main in the loop of lines 292-443
    total_success_episodes,  \* the quota (parameter of main, line 25)
    successful_grasps,       \* line 274
    total_runs,              \* line 275
    warm_i,                  \* loop index of the warm-up loop, line 310
    step_timeout,            \* lines 328 and 412 (one variable, two budgets)
    step_count,              \* lines 329 and 413
    idle_wait_timeout,       \* line 381
    idle_step_count,         \* line 382
    sm,                      \* the grasp state machine (black box)
    events,                  \* keys pressed through simulate_key_press
    hist,                    \* observation: one record per resolved episode
    ep,                      \* observation: what happened in this episode
    mocked,                  \* the state machine is a mock that eventually succeeds
    headless,                \* parameter of main, line 25
    camera_controller,       \* lines 178-196: TRUE when one was created
    data_collection_manager, \* lines 222-232: "unbound" (not yet assigned), "none",
                             \* "open", "closed", "close_raised"
    simulation_app,          \* line 65: "running", "closed"
    exit_code,               \* value main returns: <<>> until decided, <<0>>, <<1>>
    how,                     \* observation: how the try block of line 55 was left
    tracing,                 \* observation: the calls of each tick are recorded
    last_tick,               \* observation: phase and calls of the latest tick
    counting,                \* frame_count is carried (else it is left out)
    frame_count              \* lines 290, 312, 332, 385, 417

vars == <<pc, total_success_episodes, successful_grasps, total_runs, warm_i,
          step_timeout, step_count, idle_wait_timeout, idle_step_count,
          sm, events, hist, ep, mocked, headless, camera_controller,
          data_collection_manager, simulation_app, exit_code, how, tracing,
          last_tick, counting, frame_count>>

\* what is fixed when the loop is entered
setup == <<mocked, headless, camera_controller, tracing, counting>>

\* what the end of main works on (lines 449-469)
teardown == <<data_collection_manager, simulation_app, exit_code, how>>

---------------------------------------------------------------------------
(* Bounds of the model *)

\* largest quota drawn for total_success_episodes
MaxQuota == 2

\* episodes started before the model stops exploring
MaxRuns == 2

\* stepper calls made while frame_count is carried
MaxFrames == 30

\* a mocked state machine succeeds in every episode once this many
\* episodes have ended without a tallied success
MaxMisses == 1

(* Program constants *)

\* for _ in range(10), line 310
WarmupTicks == 10

\* step_timeout = 60 * 60, line 328
CompletionTimeout == 3600

\* idle_wait_timeout = 60 * 5, line 381
IdleWaitTimeout == 300

\* step_timeout = 60 * 5, line 412
ResetWaitTimeout == 300

---------------------------------------------------------------------------
(* The grasp state machine and the keyboard handler, from the contract.    *)

SMStates == {"IDLE", "WORKING", "RETURNING"}

\* crit_events counts the critical events the machine has raised,
\* fail_calls the calls of fail_current_task it has received
SMInit == [state |-> "IDLE", last_ok |-> FALSE, hard_reset |-> FALSE,
           pending |-> FALSE, crit_events |-> 0, fail_calls |-> 0]

\* is_busy(): a task is being executed
is_busy(s) == s.state = "WORKING"

\* get_current_state()
get_current_state(s) == s.state

\* get_last_attempt_status()
get_last_attempt_status(s) == s.last_ok

\* get_and_clear_hard_reset_flag(): <<returned value, state machine after>>
get_and_clear_hard_reset_flag(s) ==
    <<s.hard_reset, [s EXCEPT !.hard_reset = FALSE]>>

\* fail_current_task(): the current task ends as a failure, no longer busy
fail_current_task(s) ==
    [s EXCEPT !.last_ok = FALSE,
              !.state = IF s.state = "WORKING" THEN "RETURNING" ELSE s.state,
              !.fail_calls = @ + 1]

\* episodes that ended without a tallied success
Misses == Cardinality({k \in 1..Len(hist) : hist[k].outcome # "success"})

\* the mock owes a success: it reacts, works and succeeds without delay
Obliged == mocked /\ Misses >= MaxMisses

\* update() of the mock while it owes a success
MockUpdate(s) ==
    CASE s.state = "IDLE" ->
           IF s.pending THEN [s EXCEPT !.state = "WORKING", !.pending = FALSE]
                        ELSE s
      [] s.state = "WORKING" ->
           [s EXCEPT !.state = "RETURNING", !.last_ok = TRUE]
      [] OTHER -> [s EXCEPT !.state = "IDLE"]

\* update(): the states one control tick may lead to
FreeUpdate(s) ==
    CASE s.state = "IDLE" ->
           IF s.pending
           THEN {s, [s EXCEPT !.state = "WORKING", !.pending = FALSE]}
           ELSE {s}
      [] s.state = "WORKING" ->
           {s,
            [s EXCEPT !.state = "RETURNING", !.last_ok = TRUE],
            [s EXCEPT !.state = "RETURNING", !.last_ok = FALSE],
            [s EXCEPT !.state = "RETURNING", !.last_ok = FALSE,
                      !.hard_reset = TRUE, !.crit_events = @ + 1]}
      [] OTHER ->
           {s, [s EXCEPT !.state = "IDLE"]}

SMUpdate(s) == IF Obliged THEN {MockUpdate(s)} ELSE FreeUpdate(s)

\* world.is_playing(): the values the stepper may report on a tick
Playing == IF Obliged THEN {TRUE} ELSE BOOLEAN

\* episodes started before the model stops exploring
RunCap == IF mocked THEN total_success_episodes + MaxMisses ELSE MaxRuns

\* simulate_key_press(key): the states the handler may leave the machine in
KeyPress(s, key) ==
    CASE key = "1" -> {[s EXCEPT !.pending = TRUE]}
      [] key = "r" -> {[s EXCEPT !.pending = FALSE, !.state = st] :
                          st \in {"IDLE", "RETURNING"}}
      [] OTHER -> {s}

---------------------------------------------------------------------------
(* The orchestrator, lines 274-446.                                        *)

\* if world.is_playing(): ... state_machine.update() ...
\* (lines 313-325, 334-356, 386-398, 419-441)
PerTickUpdate(s, playing) == IF playing THEN SMUpdate(s) ELSE {s}

\* a budget that is used up only by ticks on which the simulation runs
Consume_WhenPlaying(count, playing) == IF playing THEN count + 1 ELSE count

\* step_count += 1 and idle_step_count += 1, lines 358, 399 and 443:
\* outside the if world.is_playing() of the loop body
Consume(count, playing) == count + 1

\* a frame counter that is never advanced
NextFrame_Stuck(frames) == frames

\* frame_count += 1, lines 312, 332, 385 and 417
NextFrame(frames) == frames + 1

\* frame_count after a stepper call
Frame == IF counting THEN NextFrame(frame_count) ELSE frame_count

\* while frame_count is carried the model makes MaxFrames stepper calls
FrameRoom == counting => frame_count < MaxFrames

\* the calls of one iteration of the warm-up loop, lines 311-325
WarmupTick(playing) ==
    <<"world.step">> \o
    (IF playing
     THEN <<"get_joint_positions", "fk wrist_link", "fk gripper_frame_link",
            "update_calculations", "state_machine.update", "execute_control">>
          \o (IF ~headless THEN <<"draw_visualizations">> ELSE <<>>)
          \o (IF camera_controller THEN <<"update_frame_count">> ELSE <<>>)
     ELSE <<>>)

\* a completion wait whose update and control output sit under the
\* camera test
CompletionTick_UnderCamera(playing) ==
    <<"world.step">> \o
    (IF playing
     THEN <<"get_joint_positions", "fk wrist_link", "fk gripper_frame_link",
            "update_calculations">>
          \o (IF camera_controller
              THEN <<"state_machine.update", "execute_control",
                     "update_frame_count">>
              ELSE <<>>)
          \o (IF ~headless THEN <<"draw_visualizations">> ELSE <<>>)
     ELSE <<>>)

\* the calls of one iteration of the completion wait, lines 331-356
CompletionTick(playing) ==
    <<"world.step">> \o
    (IF playing
     THEN <<"get_joint_positions", "fk wrist_link", "fk gripper_frame_link",
            "update_calculations", "state_machine.update", "execute_control">>
          \o (IF ~headless THEN <<"draw_visualizations">> ELSE <<>>)
          \o (IF camera_controller THEN <<"update_frame_count">> ELSE <<>>)
     ELSE <<>>)

\* the idle wait without its control output
IdleTick_NoControl(playing) ==
    <<"world.step">> \o
    (IF playing
     THEN <<"get_joint_positions", "fk wrist_link", "fk gripper_frame_link",
            "update_calculations", "state_machine.update">>
          \o (IF ~headless THEN <<"draw_visualizations">> ELSE <<>>)
          \o (IF camera_controller THEN <<"update_frame_count">> ELSE <<>>)
     ELSE <<>>)

\* the calls of one iteration of the idle wait, lines 384-398
IdleTick(playing) ==
    <<"world.step">> \o
    (IF playing
     THEN <<"get_joint_positions", "fk wrist_link", "fk gripper_frame_link",
            "update_calculations", "state_machine.update", "execute_control">>
          \o (IF ~headless THEN <<"draw_visualizations">> ELSE <<>>)
          \o (IF camera_controller THEN <<"update_frame_count">> ELSE <<>>)
     ELSE <<>>)

\* the calls of one iteration of the reset wait, lines 416-441
ResetTick(playing) ==
    <<"world.step">> \o
    (IF playing
     THEN <<"get_joint_positions", "fk wrist_link", "fk gripper_frame_link",
            "update_calculations", "state_machine.update", "execute_control">>
          \o (IF ~headless THEN <<"draw_visualizations">> ELSE <<>>)
          \o (IF camera_controller THEN <<"update_frame_count">> ELSE <<>>)
     ELSE <<>>)

\* state_machine.update() is among the calls of a tick
Updates(calls) == \E i \in 1..Len(calls) : calls[i] = "state_machine.update"

\* the record of a tick, kept while tracing
Record(phase, calls) ==
    IF tracing THEN [phase |-> phase, calls |-> calls] ELSE last_tick

\* while successful_grasps < total_success_episodes, line 292
QuotaUnmet(succ, quota) == succ < quota

\* the break test off by one
QuotaMet_Strict(succ, quota) == succ > quota

\* if successful_grasps >= total_success_episodes: break, lines 299 and 404
QuotaMet(succ, quota) == succ >= quota

\* if step_count >= step_timeout, line 360
TimedOut(count, timeout) == count >= timeout

\* the budget test taken one tick too far
WithinBudget_Inclusive(count, timeout) == count <= timeout

\* ... and step_count < step_timeout, lines 330, 383 and 415
WithinBudget(count, timeout) == count < timeout

\* the tally without its increment
Tally_Lost(succ, ok) == succ

\* a tally that counts every outcome read
Tally_Always(succ, ok) == succ + 1

\* a tally of consecutive successes: a failure starts it again
Tally_Streak(succ, ok) == IF ok THEN succ + 1 ELSE 0

\* if was_successful: successful_grasps += 1, lines 373-374
Tally(succ, ok) == IF ok THEN succ + 1 ELSE succ

\* the timeout branch without its call
OnTimeout_Skip(s) == s

\* state_machine.fail_current_task(), line 362
OnTimeout(s) == fail_current_task(s)

\* the flag read through a getter that leaves it set
FlagRead_Peek(s) == <<s.hard_reset, s>>

\* state_machine.get_and_clear_hard_reset_flag(), line 365
FlagRead(s) == get_and_clear_hard_reset_flag(s)

\* another key than 'r'
HardResetKey_Wrong == "v"

\* keyboard_handler.simulate_key_press('r'), line 367
HardResetKey == "r"

\* What is observed of the current episode:
\*   warm_steps      stepper calls of the warm-up loop
\*   comp_steps      stepper calls of the completion wait (kept after the
\*                   wait only when the wait timed out)
\*   fails_at_start  fail_current_task calls received before the episode
\*   busy_at_exit    is_busy() was true at the last poll of the wait
\*   timed_out       the test of line 360 was true
\*   flag            what the read of the hard-reset flag returned
\*   status_reads    calls of get_last_attempt_status
\*   succ_at_start   successful_grasps when the episode began
\*   trigger_idle    the state was IDLE when '1' was pressed
\*   idle_warn       the warning of line 402 was printed
\*   quiet_tick      warm-up tick after which the machine, having taken the
\*                   task, was first back in IDLE (0: not during warm-up)
\*   api             the calls of lines 362, 365 and 372 made so far, in order
\*   was_busy        is_busy() would have been true after some tick
EpInit == [warm_steps |-> 0, comp_steps |-> 0, fails_at_start |-> 0,
           busy_at_exit |-> FALSE, timed_out |-> FALSE, flag |-> "unread",
           status_reads |-> 0, succ_at_start |-> 0, trigger_idle |-> TRUE,
           idle_warn |-> FALSE, quiet_tick |-> 0, api |-> <<>>,
           was_busy |-> FALSE]

\* calls of fail_current_task in the current episode
EpFails == sm.fail_calls - ep.fails_at_start

\* no tick recorded
NoTick == [phase |-> "none", calls |-> <<>>]

\* the state on entry to the loop (lines 274-290) for a quota among quotas
LoopEntry(quotas) ==
    /\ pc = "loop_head"
    /\ total_success_episodes \in quotas
    /\ successful_grasps = 0
    /\ total_runs = 0
    /\ warm_i = 0
    /\ step_timeout = 0
    /\ step_count = 0
    /\ idle_wait_timeout = 0
    /\ idle_step_count = 0
    /\ sm = SMInit
    /\ events = <<"v">>
    /\ hist = <<>>
    /\ ep = EpInit
    /\ simulation_app = "running"
    /\ exit_code = <<>>
    /\ how = "running"
    /\ last_tick = NoTick
    /\ frame_count = 0

\* the default launch: with rendering, a camera controller and a data logger
Init ==
    /\ LoopEntry(0..MaxQuota)
    /\ mocked = FALSE
    /\ headless = FALSE
    /\ camera_controller = TRUE
    /\ data_collection_manager = "open"
    /\ tracing = FALSE
    /\ counting = FALSE

\* a run that is started without being counted
CountRun_Lost(runs) == runs

\* total_runs += 1, line 293
CountRun(runs) == runs + 1

\* lines 292-305: loop test, count the attempt, press '1'
LoopHead ==
    /\ pc = "loop_head"
    /\ QuotaUnmet(successful_grasps, total_success_episodes)
    /\ total_runs < RunCap
    /\ total_runs' = CountRun(total_runs)
    /\ IF QuotaMet(successful_grasps, total_success_episodes)
       THEN /\ pc' = "done"
            /\ UNCHANGED <<sm, events, ep, warm_i>>
       ELSE /\ \E s2 \in KeyPress(sm, "1") : sm' = s2
            /\ events' = Append(events, "1")
            /\ ep' = [EpInit EXCEPT !.succ_at_start = successful_grasps,
                                    !.fails_at_start = sm.fail_calls,
                                    !.trigger_idle =
                                        (get_current_state(sm) = "IDLE")]
            /\ warm_i' = 0
            /\ pc' = "warmup"
    /\ UNCHANGED <<total_success_episodes, successful_grasps, step_timeout,
                   step_count, idle_wait_timeout, idle_step_count, hist>>
    /\ UNCHANGED <<setup, teardown, last_tick, frame_count>>

\* line 292 false: the loop ends, lines 445-447
LoopExit ==
    /\ pc = "loop_head"
    /\ ~QuotaUnmet(successful_grasps, total_success_episodes)
    /\ pc' = "done"
    /\ UNCHANGED <<total_success_episodes, successful_grasps, total_runs,
                   warm_i, step_timeout, step_count, idle_wait_timeout,
                   idle_step_count, sm, events, hist, ep>>
    /\ UNCHANGED <<setup, teardown, last_tick, frame_count>>

\* a warm-up measured on the frame counter of the whole run
InWarmup_ByFrames(i, s) == frame_count < WarmupTicks

\* a warm-up that ends as soon as the state machine is busy
InWarmup_UntilBusy(i, s) == i < WarmupTicks /\ ~is_busy(s)

\* for _ in range(10), line 310
InWarmup(i, s) == i < WarmupTicks

\* lines 310-325: one iteration of the warm-up loop
WarmupStep ==
    /\ pc = "warmup"
    /\ InWarmup(warm_i, sm)
    /\ FrameRoom
    /\ frame_count' = Frame
    /\ \E playing \in Playing :
          /\ \E s2 \in PerTickUpdate(sm, Updates(WarmupTick(playing))) : sm' = s2
          /\ last_tick' = Record("warmup", WarmupTick(playing))
    /\ warm_i' = warm_i + 1
    /\ ep' = [ep EXCEPT !.warm_steps = @ + 1,
                        !.was_busy = @ \/ is_busy(sm'),
                        !.quiet_tick =
                            IF @ = 0 /\ sm'.state = "IDLE" /\ ~sm'.pending
                            THEN warm_i + 1 ELSE @]
    /\ UNCHANGED <<pc, total_success_episodes, successful_grasps, total_runs,
                   step_timeout, step_count, idle_wait_timeout,
                   idle_step_count, events, hist>>
    /\ UNCHANGED <<setup, teardown>>

\* a completion budget that is set once and then left as it is
CompletionBudget_SetOnce(current) ==
    IF current = 0 THEN CompletionTimeout ELSE current

\* step_timeout = 60 * 60, line 328, whatever the reset wait left in it
CompletionBudget(current) == CompletionTimeout

\* lines 328-329: the warm-up loop is over, set the completion budget
WarmupDone ==
    /\ pc = "warmup"
    /\ ~InWarmup(warm_i, sm)
    /\ step_timeout' = CompletionBudget(step_timeout)
    /\ step_count' = 0
    /\ pc' = "await_completion"
    /\ UNCHANGED <<total_success_episodes, successful_grasps, total_runs,
                   warm_i, idle_wait_timeout, idle_step_count, sm, events,
                   hist, ep>>
    /\ UNCHANGED <<setup, teardown, last_tick, frame_count>>

\* lines 330-358: one iteration of the completion wait
AwaitCompletionStep ==
    /\ pc = "await_completion"
    /\ is_busy(sm) /\ WithinBudget(step_count, step_timeout)
    /\ FrameRoom
    /\ frame_count' = Frame
    /\ \E playing \in Playing :
          /\ \E s2 \in PerTickUpdate(sm, Updates(CompletionTick(playing))) : sm' = s2
          /\ last_tick' = Record("await_completion", CompletionTick(playing))
          /\ step_count' = Consume(step_count, playing)
    /\ ep' = [ep EXCEPT !.comp_steps = @ + 1, !.was_busy = TRUE]
    /\ UNCHANGED <<pc, total_success_episodes, successful_grasps, total_runs,
                   warm_i, step_timeout, idle_wait_timeout, idle_step_count,
                   events, hist>>
    /\ UNCHANGED <<setup, teardown>>

\* a timeout check that is followed by the read of the outcome
AfterWait_Evaluate == "get_result"

\* the statement after lines 360-362 is the flag read of line 365
AfterWait == "hard_reset_check"

\* lines 330 (test false) and 360-362: leave the wait, fail the task on timeout
TimeoutCheck ==
    /\ pc = "await_completion"
    /\ ~(is_busy(sm) /\ WithinBudget(step_count, step_timeout))
    /\ IF TimedOut(step_count, step_timeout)
       THEN /\ sm' = OnTimeout(sm)
            /\ ep' = [ep EXCEPT !.timed_out = TRUE,
                                !.busy_at_exit = is_busy(sm),
                                !.api = Append(@, "fail_current_task")]
       ELSE /\ ep' = [ep EXCEPT !.busy_at_exit = is_busy(sm),
                                !.comp_steps = 0]
            /\ UNCHANGED sm
    /\ step_count' = 0
    /\ pc' = AfterWait
    /\ UNCHANGED <<total_success_episodes, successful_grasps, total_runs,
                   warm_i, step_timeout, idle_wait_timeout, idle_step_count,
                   events, hist>>
    /\ UNCHANGED <<setup, teardown, last_tick, frame_count>>

\* lines 365-369: read and clear the hard-reset flag; on a hit press 'r'
\* and continue with the next run.  after_hit is where a hit leads.
HardResetStep(after_hit) ==
    /\ pc = "hard_reset_check"
    /\ LET r == FlagRead(sm) IN
       IF r[1]
       THEN /\ \E s2 \in KeyPress(r[2], HardResetKey) : sm' = s2
            /\ events' = Append(events, HardResetKey)
            /\ hist' = Append(hist, [timeout |-> ep.timed_out,
                                     outcome |-> "void"])
            /\ ep' = [ep EXCEPT !.flag = "set",
                                !.api = Append(@, "get_and_clear_hard_reset_flag")]
            /\ pc' = after_hit
       ELSE /\ sm' = r[2]
            /\ ep' = [ep EXCEPT !.flag = "clear",
                                !.api = Append(@, "get_and_clear_hard_reset_flag")]
            /\ pc' = "get_result"
            /\ UNCHANGED <<events, hist>>
    /\ UNCHANGED <<total_success_episodes, successful_grasps, total_runs,
                   warm_i, step_timeout, step_count, idle_wait_timeout,
                   idle_step_count>>
    /\ UNCHANGED <<setup, teardown, last_tick, frame_count>>

\* the hard-reset branch without its continue
HardResetCheck_NoContinue == HardResetStep("get_result")

\* line 369: continue
HardResetCheck == HardResetStep("loop_head")

\* a tally that ends the loop as soon as the quota is met
AfterTally_Break(succ, quota) == IF succ >= quota THEN "done" ELSE "await_idle"

\* lines 377-383: whatever the tally, the idle wait comes next
AfterTally(succ, quota) == "await_idle"

\* lines 372-382: read the outcome, tally it, set the idle budget
GetResult ==
    /\ pc = "get_result"
    /\ LET was_successful == get_last_attempt_status(sm) IN
       /\ successful_grasps' = Tally(successful_grasps, was_successful)
       /\ pc' = AfterTally(Tally(successful_grasps, was_successful),
                           total_success_episodes)
       /\ hist' = Append(hist, [timeout |-> ep.timed_out,
                                outcome |-> IF was_successful THEN "success"
                                                              ELSE "failure"])
    /\ ep' = [ep EXCEPT !.status_reads = @ + 1,
                        !.api = Append(@, "get_last_attempt_status")]
    /\ idle_wait_timeout' = IdleWaitTimeout
    /\ idle_step_count' = 0
    /\ UNCHANGED <<total_success_episodes, total_runs, warm_i, step_timeout,
                   step_count, sm, events>>
    /\ UNCHANGED <<setup, teardown, last_tick, frame_count>>

\* lines 383-399: one iteration of the wait for IDLE
AwaitIdleStep ==
    /\ pc = "await_idle"
    /\ get_current_state(sm) # "IDLE"
    /\ WithinBudget(idle_step_count, idle_wait_timeout)
    /\ FrameRoom
    /\ frame_count' = Frame
    /\ \E playing \in Playing :
          /\ \E s2 \in PerTickUpdate(sm, Updates(IdleTick(playing))) : sm' = s2
          /\ last_tick' = Record("await_idle", IdleTick(playing))
          /\ idle_step_count' = Consume(idle_step_count, playing)
    /\ UNCHANGED <<pc, total_success_episodes, successful_grasps, total_runs,
                   warm_i, step_timeout, step_count, idle_wait_timeout,
                   events, hist, ep>>
    /\ UNCHANGED <<setup, teardown>>

\* lines 383 (test false) and 401-405: warn on timeout, leave on quota.
\* fatal tells whether a timeout ends the run.
AwaitIdleLeave(fatal) ==
    /\ pc = "await_idle"
    /\ ~(/\ get_current_state(sm) # "IDLE"
         /\ WithinBudget(idle_step_count, idle_wait_timeout))
    /\ ep' = [ep EXCEPT !.idle_warn =
                            TimedOut(idle_step_count, idle_wait_timeout)]
    /\ idle_step_count' = 0
    /\ pc' = IF \/ QuotaMet(successful_grasps, total_success_episodes)
                \/ (fatal /\ TimedOut(idle_step_count, idle_wait_timeout))
             THEN "done" ELSE "reset"
    /\ UNCHANGED <<total_success_episodes, successful_grasps, total_runs,
                   warm_i, step_timeout, step_count, idle_wait_timeout, sm,
                   events, hist>>
    /\ UNCHANGED <<setup, teardown, last_tick, frame_count>>

\* the idle timeout taken as the end of the run
AwaitIdleExit_Fatal == AwaitIdleLeave(TRUE)

\* lines 401-405: the timeout only prints a warning
AwaitIdleExit == AwaitIdleLeave(FALSE)

\* lines 409-413: press 'r', set the reset budget
ResetScene ==
    /\ pc = "reset"
    /\ \E s2 \in KeyPress(sm, "r") : sm' = s2
    /\ events' = Append(events, "r")
    /\ step_timeout' = ResetWaitTimeout
    /\ step_count' = 0
    /\ pc' = "reset_wait"
    /\ UNCHANGED <<total_success_episodes, successful_grasps, total_runs,
                   warm_i, idle_wait_timeout, idle_step_count, hist, ep>>
    /\ UNCHANGED <<setup, teardown, last_tick, frame_count>>

\* lines 415-443: one iteration of the wait for the reset
ResetWaitStep ==
    /\ pc = "reset_wait"
    /\ get_current_state(sm) # "IDLE"
    /\ WithinBudget(step_count, step_timeout)
    /\ FrameRoom
    /\ frame_count' = Frame
    /\ \E playing \in Playing :
          /\ \E s2 \in PerTickUpdate(sm, Updates(ResetTick(playing))) : sm' = s2
          /\ last_tick' = Record("reset_wait", ResetTick(playing))
          /\ step_count' = Consume(step_count, playing)
    /\ UNCHANGED <<pc, total_success_episodes, successful_grasps, total_runs,
                   warm_i, step_timeout, idle_wait_timeout, idle_step_count,
                   events, hist, ep>>
    /\ UNCHANGED <<setup, teardown>>

\* line 415 (test false): back to the loop test of line 292
ResetWaitExit ==
    /\ pc = "reset_wait"
    /\ ~(/\ get_current_state(sm) # "IDLE"
         /\ WithinBudget(step_count, step_timeout))
    /\ step_count' = 0
    /\ pc' = "loop_head"
    /\ UNCHANGED <<total_success_episodes, successful_grasps, total_runs,
                   warm_i, step_timeout, idle_wait_timeout, idle_step_count,
                   sm, events, hist, ep>>
    /\ UNCHANGED <<setup, teardown, last_tick, frame_count>>

Next ==
    \/ LoopHead
    \/ LoopExit
    \/ WarmupStep
    \/ WarmupDone
    \/ AwaitCompletionStep
    \/ TimeoutCheck
    \/ HardResetCheck
    \/ GetResult
    \/ AwaitIdleStep
    \/ AwaitIdleExit
    \/ ResetScene
    \/ ResetWaitStep
    \/ ResetWaitExit

Spec == Init /\ [][Next]_vars

\* the same start with the mocked state machine of section 8
InitMocked ==
    /\ LoopEntry(0..MaxQuota)
    /\ mocked = TRUE
    /\ headless = FALSE
    /\ camera_controller = TRUE
    /\ data_collection_manager = "open"
    /\ tracing = FALSE
    /\ counting = FALSE

\* the program keeps running: it takes its next step whenever it has one
LiveSpec == InitMocked /\ [][Next]_vars /\ WF_vars(Next)

---------------------------------------------------------------------------
(* The end of main, lines 445-469, and the exceptions that lead to it.     *)

\* positions inside the while loop of lines 292-443
LoopPCs == {"loop_head", "warmup", "await_completion", "hard_reset_check",
            "get_result", "await_idle", "reset", "reset_wait"}

\* what a call made by the loop may raise: KeyboardInterrupt or an Exception
Raised == {"interrupt", "exception"}

\* what a close() call of the cleanup may do
CloseResults == {"ok", "raise"}

\* a call of the loop body raises; the locals of the loop are dead from here
Raise(kind) ==
    /\ pc \in LoopPCs
    /\ how = "running"
    /\ how' = kind
    /\ pc' = "except"
    /\ warm_i' = 0
    /\ step_timeout' = 0
    /\ step_count' = 0
    /\ idle_wait_timeout' = 0
    /\ idle_step_count' = 0
    /\ ep' = EpInit
    /\ UNCHANGED <<total_success_episodes, successful_grasps, total_runs, sm,
                   events, hist, setup, data_collection_manager,
                   simulation_app, exit_code, last_tick, frame_count>>

\* lines 445-447: the loop is over, the try block ends
TryEnd ==
    /\ pc = "done"
    /\ how = "running"
    /\ how' = "completed"
    /\ pc' = "finally"
    /\ UNCHANGED <<total_success_episodes, successful_grasps, total_runs,
                   warm_i, step_timeout, step_count, idle_wait_timeout,
                   idle_step_count, sm, events, hist, ep, setup,
                   data_collection_manager, simulation_app, exit_code,
                   last_tick, frame_count>>

\* an interrupt handler that goes on with the next episode
InterruptTarget_Resume == "loop_head"

\* lines 449-450: the handler prints and falls through to the cleanup
InterruptTarget == "finally"

\* lines 449-450: except KeyboardInterrupt
HandleInterrupt ==
    /\ pc = "except"
    /\ how = "interrupt"
    /\ pc' = InterruptTarget
    /\ UNCHANGED <<total_success_episodes, successful_grasps, total_runs,
                   warm_i, step_timeout, step_count, idle_wait_timeout,
                   idle_step_count, sm, events, hist, ep, setup, teardown,
                   last_tick, frame_count>>

\* an exception handler without its return
ExceptionReturn_None == <<>>

\* return 1, line 455
ExceptionReturn == <<1>>

\* lines 451-455: except Exception; the return waits for the cleanup
HandleException ==
    /\ pc = "except"
    /\ how = "exception"
    /\ exit_code' = ExceptionReturn
    /\ pc' = "finally"
    /\ UNCHANGED <<total_success_episodes, successful_grasps, total_runs,
                   warm_i, step_timeout, step_count, idle_wait_timeout,
                   idle_step_count, sm, events, hist, ep, setup,
                   data_collection_manager, simulation_app, how, last_tick, frame_count>>

\* a cleanup whose failure decides the exit code
CleanupCode_OnFailure(code, failed) == IF failed THEN <<1>> ELSE code

\* lines 465-466: a failure of the cleanup is printed, nothing is returned
CleanupCode(code, failed) == code

\* a cleanup that runs only when no return is pending
CleanupRuns_OnFallThrough(code) == code = <<>>

\* lines 457-458: finally runs however the try statement was left
CleanupRuns(code) == TRUE

\* lines 457-466: close the data logger, then the simulation application;
\* the first statement that raises ends the inner try block: a close(), or
\* the test of line 461 when data_collection_manager was never assigned
Cleanup ==
    /\ pc = "finally"
    /\ IF CleanupRuns(exit_code)
       THEN \E r1 \in CloseResults, r2 \in CloseResults :
              LET first_raises ==
                      \/ data_collection_manager = "unbound"
                      \/ data_collection_manager = "open" /\ r1 = "raise"
              IN
              /\ data_collection_manager' =
                    IF data_collection_manager = "open"
                    THEN (IF r1 = "ok" THEN "closed" ELSE "close_raised")
                    ELSE data_collection_manager
              /\ simulation_app' =
                    IF first_raises
                    THEN simulation_app
                    ELSE (IF r2 = "ok" THEN "closed" ELSE "close_raised")
              /\ exit_code' = CleanupCode(exit_code, first_raises \/ r2 = "raise")
       ELSE UNCHANGED <<data_collection_manager, simulation_app, exit_code>>
    /\ pc' = "return"
    /\ UNCHANGED <<total_success_episodes, successful_grasps, total_runs,
                   warm_i, step_timeout, step_count, idle_wait_timeout,
                   idle_step_count, sm, events, hist, ep, setup, how,
                   last_tick, frame_count>>

\* the pending return 1 of line 455, or lines 468-469: return 0
Return ==
    /\ pc = "return"
    /\ exit_code' = IF exit_code = <<>> THEN <<0>> ELSE exit_code
    /\ pc' = "exited"
    /\ UNCHANGED <<total_success_episodes, successful_grasps, total_runs,
                   warm_i, step_timeout, step_count, idle_wait_timeout,
                   idle_step_count, sm, events, hist, ep, setup,
                   data_collection_manager, simulation_app, how, last_tick, frame_count>>

\* lines 66-221, e.g. the raise of line 132: the set-up fails after the
\* simulation application was started and before line 222
SetupFails ==
    /\ pc = "setup"
    /\ how = "running"
    /\ how' = "exception"
    /\ pc' = "except"
    /\ UNCHANGED <<total_success_episodes, successful_grasps, total_runs,
                   warm_i, step_timeout, step_count, idle_wait_timeout,
                   idle_step_count, sm, events, hist, ep, setup,
                   data_collection_manager, simulation_app, exit_code,
                   last_tick, frame_count>>

\* lines 66-290: the set-up succeeds; data_collection_manager is None or
\* a manager (lines 222-232), 'v' is pressed (line 279)
SetupDone ==
    /\ pc = "setup"
    /\ data_collection_manager' \in {"none", "open"}
    /\ events' = <<"v">>
    /\ pc' = "loop_head"
    /\ UNCHANGED <<total_success_episodes, successful_grasps, total_runs,
                   warm_i, step_timeout, step_count, idle_wait_timeout,
                   idle_step_count, sm, hist, ep, setup, simulation_app,
                   exit_code, how, last_tick, frame_count>>

\* the loop together with its exceptions and the end of main
NextRun ==
    \/ Next
    \/ SetupFails
    \/ SetupDone
    \/ \E kind \in Raised : Raise(kind)
    \/ TryEnd
    \/ HandleInterrupt
    \/ HandleException
    \/ Cleanup
    \/ Return

\* line 65 has started the simulation application: the loop's variables
\* hold what lines 274-290 will give them, no key has been pressed and
\* data_collection_manager is not assigned
InitRun ==
    /\ pc = "setup"
    /\ total_success_episodes \in 0..MaxQuota
    /\ successful_grasps = 0
    /\ total_runs = 0
    /\ warm_i = 0
    /\ step_timeout = 0
    /\ step_count = 0
    /\ idle_wait_timeout = 0
    /\ idle_step_count = 0
    /\ sm = SMInit
    /\ events = <<>>
    /\ hist = <<>>
    /\ ep = EpInit
    /\ simulation_app = "running"
    /\ exit_code = <<>>
    /\ how = "running"
    /\ last_tick = NoTick
    /\ frame_count = 0
    /\ mocked = FALSE
    /\ headless = FALSE
    /\ camera_controller = TRUE
    /\ data_collection_manager = "unbound"
    /\ tracing = FALSE
    /\ counting = FALSE

RunSpec == InitRun /\ [][NextRun]_vars

\* a launch with or without rendering and camera, every tick recorded
InitTick ==
    /\ LoopEntry({0, 1})
    /\ mocked = FALSE
    /\ headless \in BOOLEAN
    /\ camera_controller \in BOOLEAN
    /\ data_collection_manager = "open"
    /\ tracing = TRUE
    /\ counting = FALSE

TickSpec == InitTick /\ [][Next]_vars

\* the default launch with frame_count carried
InitFrame ==
    /\ LoopEntry(0..MaxQuota)
    /\ mocked = FALSE
    /\ headless = FALSE
    /\ camera_controller = TRUE
    /\ data_collection_manager = "open"
    /\ tracing = FALSE
    /\ counting = TRUE

FrameSpec == InitFrame /\ [][Next]_vars

---------------------------------------------------------------------------
(* Properties *)

\* the current episode is resolved and the next one has not started
Resolved == pc \in {"await_idle", "reset", "reset_wait", "loop_head", "done"}

\* how often key was pressed
RECURSIVE Presses(_, _)
Presses(keys, key) ==
    IF keys = <<>> THEN 0
    ELSE (IF Head(keys) = key THEN 1 ELSE 0) + Presses(Tail(keys), key)

\* episodes voided so far
Voided == Cardinality({k \in 1..Len(hist) : hist[k].outcome = "void"})

\* C1: for every quota Q >= 1, with a state machine that eventually
\* succeeds, the loop terminates, and at normal completion
\* successful_grasps equals Q exactly.
C1_TerminatesWithExactQuota ==
    /\ [](pc = "done" /\ total_success_episodes >= 1
             => successful_grasps = total_success_episodes)
    /\ (total_success_episodes >= 1 => <>(pc = "done"))

\* a run with the largest quota and an episode without success has ended
C1_Witness ==
    /\ pc = "done"
    /\ total_success_episodes = MaxQuota
    /\ successful_grasps = MaxQuota
    /\ \E k \in 1..Len(hist) : hist[k].outcome # "success"

\* C2: in an episode whose read-and-clear of the hard-reset flag returned
\* true, successful_grasps keeps the value it had at the start of the
\* episode and get_last_attempt_status is not called.
C2_VoidEpisodeUntallied ==
    ep.flag = "set" =>
        /\ successful_grasps = ep.succ_at_start
        /\ ep.status_reads = 0

\* a voided episode that followed a tallied success
C2_Witness ==
    /\ ep.flag = "set"
    /\ pc = "loop_head"
    /\ successful_grasps = 1

\* C3: in an episode where the state machine is busy at every poll, the
\* completion wait makes exactly CompletionTimeout stepper calls after
\* exactly WarmupTicks warm-up calls, and fail_current_task is called
\* exactly once in the episode.
C3_TimeoutAfterExactBudget ==
    ep.busy_at_exit =>
        /\ ep.warm_steps = 10
        /\ ep.comp_steps = 3600
        /\ EpFails = 1

\* the completion wait has just ended with the machine still busy
C3_Witness ==
    /\ pc = "hard_reset_check"
    /\ ep.busy_at_exit
    /\ ep.comp_steps = 3600

\* C4: the select-target key is pressed only while the state machine's
\* state is IDLE, on every path into the trigger.
C4_TriggerOnlyWhenIdle == ep.trigger_idle

\* C5: scenario B: with quota 2, when the first episode timed out and the
\* second was tallied as a success, total_runs is 2, successful_grasps is 1
\* and fail_current_task has been called exactly once.
C5_ScenarioB ==
    (/\ total_success_episodes = 2
     /\ Resolved
     /\ Len(hist) = 2
     /\ hist[1].timeout
     /\ hist[2].outcome = "success")
    => /\ total_runs = 2
       /\ successful_grasps = 1
       /\ sm.fail_calls = 1

\* scenario B has happened: a timed-out failure, then a success
C5_Witness ==
    /\ total_success_episodes = 2
    /\ pc = "reset"
    /\ hist = <<[timeout |-> TRUE, outcome |-> "failure"],
                [timeout |-> FALSE, outcome |-> "success"]>>

\* C6: scenario C: with quota 1, when the first episode was voided by the
\* hard-reset flag and the second was tallied as a success, exactly one
\* reset key was pressed (for the voided episode), two select keys were
\* pressed, and the run ends with successful_grasps 1 and total_runs 2.
C6_ScenarioC ==
    (/\ total_success_episodes = 1
     /\ Resolved
     /\ Len(hist) = 2
     /\ hist[1].outcome = "void"
     /\ hist[2].outcome = "success")
    => /\ successful_grasps = 1
       /\ total_runs = 2
       /\ Presses(events, "r") = 1
       /\ Presses(events, "1") = 2
       /\ pc \in {"await_idle", "done"}

\* scenario C has run to its end
C6_Witness ==
    /\ total_success_episodes = 1
    /\ pc = "done"
    /\ Len(hist) = 2
    /\ hist[1].outcome = "void"
    /\ hist[2].outcome = "success"

\* C7: scenario A: with quota 1, once the first episode was tallied as a
\* success without a timeout, the loop runs no second episode: one select
\* key, no reset key, successful_grasps 1 and total_runs 1 to the end.
C7_ScenarioA ==
    (/\ total_success_episodes = 1
     /\ Len(hist) >= 1
     /\ hist[1] = [timeout |-> FALSE, outcome |-> "success"])
    => /\ Len(hist) = 1
       /\ total_runs = 1
       /\ successful_grasps = 1
       /\ events = <<"v", "1">>
       /\ pc \in {"await_idle", "done"}

\* the run has ended after one episode in which the state machine was back
\* in IDLE five ticks after the trigger, with a success
C7_Witness ==
    /\ total_success_episodes = 1
    /\ pc = "done"
    /\ ep.quiet_tick = 5
    /\ hist = <<[timeout |-> FALSE, outcome |-> "success"]>>

\* the idle wait has used up its budget after a tallied success that left
\* the quota unmet
IdleBudgetSpent ==
    /\ ep.idle_warn
    /\ hist # <<>>
    /\ hist[Len(hist)].outcome = "success"
    /\ successful_grasps < total_success_episodes

\* C8: scenario D: when the idle wait uses up its budget after a success
\* that leaves the quota unmet, the run goes on to the reset (the reset key
\* is pressed and the reset wait begins), and with a state machine that
\* eventually succeeds it reaches the quota.
C8_ScenarioD ==
    /\ [][(/\ pc = "await_idle"
           /\ get_current_state(sm) # "IDLE"
           /\ idle_step_count >= 300
           /\ successful_grasps < total_success_episodes)
          => pc' = "reset"]_vars
    /\ [][pc = "reset"
          => /\ pc' = "reset_wait"
             /\ events' = Append(events, "r")]_vars
    /\ ((pc = "reset" /\ IdleBudgetSpent)
          ~> (pc = "done" /\ successful_grasps = total_success_episodes))

\* the run is about to reset the scene after the idle wait timed out
C8_Witness ==
    /\ pc = "reset"
    /\ IdleBudgetSpent

\* C9: the hard-reset flag is read and cleared: a second read with no set
\* in between returns false, so every critical event voids at most one
\* episode (the voided episodes plus the event still unread are all the
\* events raised).
C9_FlagVoidsOnce ==
    /\ get_and_clear_hard_reset_flag(
           get_and_clear_hard_reset_flag(sm)[2])[1] = FALSE
    /\ Voided + (IF sm.hard_reset THEN 1 ELSE 0) = sm.crit_events

\* an episode that follows a voided one has been resolved without a void
C9_Witness ==
    /\ Len(hist) = 2
    /\ hist[1].outcome = "void"
    /\ hist[2].outcome # "void"
    /\ sm.crit_events = 1

\* C10: an episode whose completion wait used up its budget is not
\* tallied as a success, and the loop goes on to a next episode.
C10_TimeoutIsFailure ==
    ep.timed_out =>
        /\ successful_grasps = ep.succ_at_start
        /\ pc # "done"
        /\ Resolved /\ ep.flag # "set" => hist[Len(hist)].outcome = "failure"

\* a timed-out episode after a tallied success is on its way to the next
C10_Witness ==
    /\ ep.timed_out
    /\ pc = "reset_wait"
    /\ ep.succ_at_start = 1

\* C11: total_runs is incremented once per trigger, at loop entry: it
\* equals the number of '1' presses so far, and every started episode is
\* counted, the voided ones included (each resolved episode, void or not,
\* is one of the counted runs; the episode in progress is the last one).
C11_RunsCountTriggers ==
    /\ total_runs = Presses(events, "1")
    /\ total_runs = Len(hist) + (IF Resolved THEN 0 ELSE 1)

\* the second of two counted episodes has been voided
C11_Witness ==
    /\ pc = "loop_head"
    /\ total_runs = 2
    /\ Len(hist) = 2
    /\ hist[2].outcome = "void"
    /\ Presses(events, "1") = 2

\* C12: successful_grasps and total_runs start at zero and never decrease
\* or start again; total_runs grows by exactly 1 per episode, at its start
\* and nowhere else, and successful_grasps grows by 0 or 1 per episode.
C12_CountersMonotone ==
    /\ successful_grasps = 0 /\ total_runs = 0
    /\ [][/\ total_runs' \in {total_runs, total_runs + 1}
          /\ successful_grasps' \in {successful_grasps, successful_grasps + 1}
          /\ (pc = "loop_head" /\ pc' = "warmup" => total_runs' = total_runs + 1)
          /\ (pc # "loop_head" => total_runs' = total_runs)]_vars
    /\ [](successful_grasps - ep.succ_at_start \in {0, 1})

\* an episode that added nothing has followed one that added a success
C12_Witness ==
    /\ pc = "loop_head"
    /\ total_runs = 2
    /\ successful_grasps = 1
    /\ hist[1].outcome = "success"
    /\ hist[2].outcome = "failure"

\* C17: fail_current_task is called in an episode if and only if the state
\* machine is still busy when the completion budget has elapsed; an episode
\* in which is_busy() was false at the last poll of the wait, the one after
\* tick 3600 included, gets no call.
C17_FailOnlyWhenBusy ==
    (EpFails >= 1) <=> (ep.timed_out /\ ep.busy_at_exit)

\* what line 362 has added to the calls of the episode
FailCall == IF ep.timed_out THEN <<"fail_current_task">> ELSE <<>>

\* C18: in every episode the hard-reset flag is read and cleared exactly
\* once, after the completion wait has ended (after fail_current_task when
\* the wait timed out) and before any read of the outcome; the outcome is
\* read exactly once in an episode that was not voided, and not at all in
\* a voided one.
C18_FlagReadOnceBeforeOutcome ==
    /\ pc \in {"warmup", "await_completion"} => ep.api = <<>>
    /\ pc = "hard_reset_check" => ep.api = FailCall
    /\ pc = "get_result" =>
          /\ ep.api = FailCall \o <<"get_and_clear_hard_reset_flag">>
          /\ ep.flag = "clear"
    /\ Resolved /\ total_runs >= 1 =>
          ep.api = FailCall \o <<"get_and_clear_hard_reset_flag">>
                     \o (IF ep.flag = "set" THEN <<>>
                         ELSE <<"get_last_attempt_status">>)

\* a timed-out episode has made all three calls
C18_Witness ==
    /\ pc = "await_idle"
    /\ ep.api = <<"fail_current_task", "get_and_clear_hard_reset_flag",
                  "get_last_attempt_status">>

\* C19: after an episode that was not voided 'r' is pressed if and only if
\* the quota is still unmet after the tally: the idle wait is left for the
\* reset when it is unmet and for the end of the loop when it is met, the
\* reset presses 'r' once and is followed by the reset wait, and the
\* episode that reaches the quota is followed by no press and no reset
\* wait (every resolved episode but that one has had its 'r').
C19_ResetIffQuotaUnmet ==
    /\ [][pc = "await_idle" /\ pc' # "await_idle" =>
             /\ pc' = "reset" <=> successful_grasps < total_success_episodes
             /\ pc' = "done" <=> successful_grasps >= total_success_episodes]_vars
    /\ [][pc = "reset" => /\ events' = Append(events, "r")
                          /\ pc' = "reset_wait"]_vars
    /\ [][pc = "done" => pc' = "done" /\ events' = events]_vars
    /\ [](pc \in {"reset", "reset_wait"} =>
             /\ ep.flag = "clear"
             /\ successful_grasps < total_success_episodes)
    /\ [](pc = "done" /\ total_runs >= 1 =>
             /\ successful_grasps >= total_success_episodes
             /\ events[Len(events)] = "1")
    /\ [](Presses(events, "r") =
             Len(hist) - (IF \/ pc \in {"await_idle", "reset"}
                             \/ pc = "done" /\ total_runs >= 1
                          THEN 1 ELSE 0))

\* a failed episode got its reset, the one that reached the quota got none
C19_Witness ==
    /\ pc = "done"
    /\ Len(hist) = 2
    /\ hist[1].outcome = "failure"
    /\ hist[2].outcome = "success"
    /\ events = <<"v", "1", "r", "1">>

\* the idle wait of lines 383-399 has nothing left to wait for
IdleWaitOver ==
    \/ get_current_state(sm) = "IDLE"
    \/ idle_step_count >= idle_wait_timeout

\* C20: the idle wait follows the read of the outcome in every episode
\* whose outcome was read, the one that reaches the quota included; the
\* wait is left only when IDLE is observed or its budget is used up, and
\* the quota check that ends the run (and the reset it comes before) is
\* reached only from the finished wait.
C20_IdleWaitBeforeQuotaCheck ==
    /\ [][pc = "get_result" => /\ pc' = "await_idle"
                               /\ idle_step_count' = 0
                               /\ idle_wait_timeout' = IdleWaitTimeout]_vars
    /\ [][pc = "await_idle" /\ ~IdleWaitOver => pc' = "await_idle"]_vars
    /\ [][pc # "done" /\ pc' = "done" /\ total_runs >= 1 =>
             pc = "await_idle" /\ IdleWaitOver]_vars
    /\ [][pc # "reset" /\ pc' = "reset" =>
             pc = "await_idle" /\ IdleWaitOver]_vars

\* the episode that reached the quota has spent its whole idle budget
C20_Witness ==
    /\ pc = "done"
    /\ total_runs >= 1
    /\ successful_grasps = total_success_episodes
    /\ ep.status_reads = 1
    /\ ep.idle_warn

\* the calls of a tick on which the simulation is running
RunningTick ==
    <<"world.step", "get_joint_positions", "fk wrist_link",
      "fk gripper_frame_link", "update_calculations", "state_machine.update",
      "execute_control">>
    \o (IF headless THEN <<>> ELSE <<"draw_visualizations">>)
    \o (IF camera_controller THEN <<"update_frame_count">> ELSE <<>>)

\* C16: in each of the four stepping phases a tick on which the simulation
\* is running makes, after world.step, the same calls in the same order:
\* joint positions and the two forward-kinematics poses, update_calculations,
\* state_machine.update, execute_control, the debug draw unless headless,
\* the camera bookkeeping when there is a camera controller; update and
\* execute_control are each made once, update first.  A tick on which the
\* simulation is not running makes the world.step call only.
C16_SameTickSequence ==
    last_tick.phase # "none" =>
        /\ last_tick.phase \in {"warmup", "await_completion", "await_idle",
                                "reset_wait"}
        /\ last_tick.calls \in {<<"world.step">>, RunningTick}
        /\ Len(last_tick.calls) > 1 =>
              /\ Presses(last_tick.calls, "state_machine.update") = 1
              /\ Presses(last_tick.calls, "execute_control") = 1
              /\ \E i, j \in 1..Len(last_tick.calls) :
                    /\ i < j
                    /\ last_tick.calls[i] = "state_machine.update"
                    /\ last_tick.calls[j] = "execute_control"

\* a running tick of the idle wait, headless and without a camera
C16_Witness ==
    /\ last_tick.phase = "await_idle"
    /\ headless
    /\ ~camera_controller
    /\ Len(last_tick.calls) = 7

\* C13: main returns 0 when the loop has run to its end and 1 when a call
\* of the loop raised an Exception; a completion timeout, an idle-wait
\* timeout and a hard reset are dealt with inside the loop: they decide no
\* exit code, the loop ends normally only with the quota met, and 1 is
\* returned for nothing but an exception.
C13_ExitCodes ==
    /\ pc = "exited" /\ how = "completed" => exit_code = <<0>>
    /\ pc = "exited" /\ how = "exception" => exit_code = <<1>>
    /\ exit_code = <<1>> => how = "exception"
    /\ how = "running" =>
          /\ exit_code = <<>>
          /\ ep.timed_out \/ ep.flag = "set" => pc \in LoopPCs
    /\ how = "completed" => successful_grasps >= total_success_episodes

\* an exception after a timed-out episode has ended the run with code 1
C13_Witness ==
    /\ pc = "exited"
    /\ how = "exception"
    /\ exit_code = <<1>>
    /\ Len(hist) = 1
    /\ hist[1].timeout

\* C14: however the run ends (quota met, interrupt, exception) it ends
\* through the finally block: close() is called on an open data logger
\* before main returns, and the block leaves the exit code as the handlers
\* left it, also when one of its close() calls raises: 1 after an
\* exception, 0 otherwise.
C14_CleanupAlwaysRuns ==
    /\ [](pc \in {"return", "exited"} => data_collection_manager # "open")
    /\ [](pc = "exited" =>
             exit_code = IF how = "exception" THEN <<1>> ELSE <<0>>)
    /\ [][(pc \in {"done", "except"}) => pc' = "finally"]_vars
    /\ [][pc = "finally" => pc' = "return" /\ exit_code' = exit_code]_vars
    /\ [][pc # "exited" /\ pc' = "exited" => pc = "return"]_vars

\* the run ended by an exception and the close() of the data logger raised
C14_Witness ==
    /\ pc = "exited"
    /\ how = "exception"
    /\ data_collection_manager = "close_raised"
    /\ exit_code = <<1>>

\* C15: an interrupt raised by any call of the loop ends the run: from
\* then on no key is pressed, the state machine and the stepper are not
\* called, no counter changes, the handler leads straight to the finally
\* block, and main returns 0.
C15_InterruptAbortsRun ==
    /\ [][how = "interrupt" =>
             /\ events' = events
             /\ sm' = sm
             /\ successful_grasps' = successful_grasps
             /\ total_runs' = total_runs
             /\ hist' = hist
             /\ pc' \in {"finally", "return", "exited"}]_vars
    /\ [][how = "interrupt" /\ pc = "except" => pc' = "finally"]_vars
    /\ [](how = "interrupt" => exit_code \in {<<>>, <<0>>})
    /\ [](how = "interrupt" /\ pc = "exited" => exit_code = <<0>>)

\* an interrupt in the middle of the second episode has ended the run
C15_Witness ==
    /\ pc = "exited"
    /\ how = "interrupt"
    /\ exit_code = <<0>>
    /\ total_runs = 2
    /\ Len(hist) = 1

\* C21: after each press of '1' exactly WarmupTicks stepper calls are made
\* before the first is_busy() poll of the episode, whatever the state of
\* the state machine and whether or not the simulation is running: the
\* warm-up loop counts its calls and nothing else, and no call of the
\* completion wait comes before it is over.
C21_WarmupUnconditional ==
    /\ pc = "warmup" =>
          /\ ep.warm_steps = warm_i
          /\ warm_i <= WarmupTicks
          /\ ep.comp_steps = 0
    /\ pc \in {"await_completion", "hard_reset_check", "get_result"} =>
          ep.warm_steps = WarmupTicks
    /\ Resolved /\ total_runs >= 1 => ep.warm_steps = WarmupTicks

\* the first poll is due after a warm-up during which the machine got busy
C21_Witness ==
    /\ pc = "await_completion"
    /\ step_count = 0
    /\ ep.warm_steps = WarmupTicks
    /\ is_busy(sm)

\* C22: every wait is a bounded poll that ends as soon as its predicate
\* holds: the completion wait makes at most 3600 stepper calls (also in an
\* episode that follows a reset wait, which leaves 300 in the same
\* step_timeout variable), the idle wait at most 300 and the reset wait at
\* most 300; with the 10 calls of the warm-up an episode makes at most
\* 10 + 3600 + 300 + 300 stepper calls whatever the state machine does.
C22_BoundedWaits ==
    /\ [](pc = "await_completion" =>
             /\ step_timeout = CompletionTimeout
             /\ step_count = ep.comp_steps
             /\ step_count <= CompletionTimeout)
    /\ [](pc = "await_idle" =>
             /\ idle_wait_timeout = IdleWaitTimeout
             /\ idle_step_count <= IdleWaitTimeout)
    /\ [](pc = "reset_wait" =>
             /\ step_timeout = ResetWaitTimeout
             /\ step_count <= ResetWaitTimeout)
    /\ [](ep.warm_steps + ep.comp_steps + idle_step_count
            + (IF pc = "reset_wait" THEN step_count ELSE 0)
          <= WarmupTicks + CompletionTimeout + IdleWaitTimeout
             + ResetWaitTimeout)
    /\ [][pc = "await_completion" /\ ~is_busy(sm) =>
             pc' # "await_completion"]_vars
    /\ [][pc = "await_idle" /\ get_current_state(sm) = "IDLE" =>
             pc' # "await_idle"]_vars
    /\ [][pc = "reset_wait" /\ get_current_state(sm) = "IDLE" =>
             pc' # "reset_wait"]_vars

\* the whole completion budget has been used in an episode after a reset wait
C22_Witness ==
    /\ pc = "await_completion"
    /\ total_runs = 2
    /\ hist[1].outcome = "failure"
    /\ step_count = CompletionTimeout

\* a stepper call is made in this step: the steps that stay in a stepping
\* phase are the iterations of its loop
TickTaken ==
    /\ pc \in {"warmup", "await_completion", "await_idle", "reset_wait"}
    /\ pc' = pc

\* C23: on a tick on which the simulation is not running only world.step
\* is called: the state machine is not updated and none of the other
\* per-tick calls is made; the tick still uses up one unit of the budget
\* of its wait, as every tick does, so a wait ends within its budget even
\* when the simulation never runs.
C23_IdleTicksConsumeBudget ==
    /\ [][TickTaken /\ pc = "await_completion" =>
             step_count' = step_count + 1]_vars
    /\ [][TickTaken /\ pc = "await_idle" =>
             idle_step_count' = idle_step_count + 1]_vars
    /\ [][TickTaken /\ pc = "reset_wait" =>
             step_count' = step_count + 1]_vars
    /\ [][TickTaken /\ last_tick'.calls = <<"world.step">> => sm' = sm]_vars
    /\ [](pc = "await_completion" => step_count <= CompletionTimeout)
    /\ [](pc = "await_idle" => idle_step_count <= IdleWaitTimeout)
    /\ [](pc = "reset_wait" => step_count <= ResetWaitTimeout)

\* the idle budget has been used up, the last tick with the simulation
\* not running
C23_Witness ==
    /\ pc = "await_idle"
    /\ idle_step_count = IdleWaitTimeout
    /\ last_tick = [phase |-> "await_idle", calls |-> <<"world.step">>]

\* the calls one iteration of each of the four stepping loops makes
TicksOf(playing) ==
    {WarmupTick(playing), CompletionTick(playing), IdleTick(playing),
     ResetTick(playing)}

\* resolved episodes tallied as a success
Successes == Cardinality({k \in 1..Len(hist) : hist[k].outcome = "success"})

\* C24: without a camera controller update_frame_count is skipped and in
\* headless mode draw_visualizations is skipped, and nothing else: on a
\* running tick of any phase the joint positions, both poses,
\* update_calculations, state_machine.update and execute_control are each
\* called once whatever the two settings, so the state machine is driven,
\* and the episodes are counted and tallied, as with both collaborators.
C24_OptionalCollaborators ==
    /\ \A playing \in BOOLEAN : \A tick \in TicksOf(playing) :
          /\ \A call \in {"get_joint_positions", "fk wrist_link",
                          "fk gripper_frame_link", "update_calculations",
                          "state_machine.update", "execute_control"} :
                Presses(tick, call) = IF playing THEN 1 ELSE 0
          /\ Presses(tick, "update_frame_count") =
                IF playing /\ camera_controller THEN 1 ELSE 0
          /\ Presses(tick, "draw_visualizations") =
                IF playing /\ ~headless THEN 1 ELSE 0
          /\ Updates(tick) = playing
    /\ successful_grasps = Successes
    /\ total_runs = Len(hist) + (IF Resolved THEN 0 ELSE 1)

\* headless and without a camera a failed episode and a successful one
\* have been run to the end of the loop
C24_Witness ==
    /\ headless
    /\ ~camera_controller
    /\ pc = "done"
    /\ Len(hist) = 2
    /\ hist[1].outcome = "failure"
    /\ hist[2].outcome = "success"
    /\ last_tick.phase = "await_idle"

\* C25: successful_grasps never exceeds total_success_episodes, and the
\* end of the loop ('Task completed', lines 445-447) is reached only with
\* successful_grasps >= total_success_episodes: the loop has no other way
\* out, such as a limit on the number of runs or a timeout.
C25_QuotaNeverExceeded ==
    /\ [](successful_grasps <= total_success_episodes)
    /\ [](pc = "done" => successful_grasps >= total_success_episodes)
    /\ [][pc # "done" /\ pc' = "done" =>
             successful_grasps >= total_success_episodes]_vars

\* the largest quota has been met after two runs
C25_Witness ==
    /\ pc = "done"
    /\ total_success_episodes = MaxQuota
    /\ successful_grasps = MaxQuota
    /\ total_runs = MaxQuota

\* C26: frame_count starts at 0, grows by exactly 1 with every stepper
\* call of the four stepping phases and changes nowhere else, so it never
\* decreases; no loop test or branch reads it: whether a stepping loop goes
\* on or ends is decided by its own counter and the state machine alone,
\* whatever frame_count has reached.
C26_FrameCountOnlyCounts ==
    /\ frame_count = 0
    /\ [][frame_count' >= frame_count]_vars
    /\ [][TickTaken => frame_count' = frame_count + 1]_vars
    /\ [][~TickTaken => frame_count' = frame_count]_vars
    /\ [](pc = "warmup" /\ frame_count < MaxFrames =>
             /\ ENABLED WarmupStep <=> warm_i < WarmupTicks
             /\ ENABLED WarmupDone <=> warm_i >= WarmupTicks)
    /\ [](pc = "await_completion" /\ frame_count < MaxFrames =>
             /\ ENABLED AwaitCompletionStep <=>
                   is_busy(sm) /\ step_count < step_timeout
             /\ ENABLED TimeoutCheck <=>
                   ~(is_busy(sm) /\ step_count < step_timeout))
    /\ [](pc = "await_idle" /\ frame_count < MaxFrames =>
             /\ ENABLED AwaitIdleStep <=>
                   /\ get_current_state(sm) # "IDLE"
                   /\ idle_step_count < idle_wait_timeout
             /\ ENABLED AwaitIdleExit <=>
                   ~(/\ get_current_state(sm) # "IDLE"
                     /\ idle_step_count < idle_wait_timeout))
    /\ [](pc = "reset_wait" /\ frame_count < MaxFrames =>
             /\ ENABLED ResetWaitStep <=>
                   /\ get_current_state(sm) # "IDLE"
                   /\ step_count < step_timeout
             /\ ENABLED ResetWaitExit <=>
                   ~(/\ get_current_state(sm) # "IDLE"
                     /\ step_count < step_timeout))

\* the second episode is through its warm-up, with frame_count beyond
\* the calls of one warm-up
C26_Witness ==
    /\ pc = "await_completion"
    /\ total_runs = 2
    /\ ep.warm_steps = WarmupTicks
    /\ frame_count > 2 * WarmupTicks
    /\ counting

\* resolved episodes whose outcome was read as a failure
Failures == Cardinality({k \in 1..Len(hist) : hist[k].outcome = "failure"})

\* C27: successful_grasps <= total_runs in every state, and the runs that
\* were not successes, total_runs - successful_grasps, are at least the
\* voided episodes plus the episodes whose outcome was read as a failure
\* (exactly those, plus the episode still in progress).
C27_FailuresAccounted ==
    /\ successful_grasps <= total_runs
    /\ total_runs - successful_grasps >= Voided + Failures
    /\ total_runs - successful_grasps =
          Voided + Failures + (IF Resolved THEN 0 ELSE 1)

\* a voided episode and a failed one, no success
C27_Witness ==
    /\ total_runs = 2
    /\ successful_grasps = 0
    /\ Voided = 1
    /\ Failures = 1

\* the keys pressed by the loop: all but the 'v' of line 279
LoopEvents == Tail(events)

\* C28: the keys pressed by the loop read '1' ('r' '1')*: the first is a
\* '1', and between two consecutive '1' there is exactly one 'r', whether
\* the earlier episode was voided, failed or succeeded short of the quota;
\* when the loop has run to its end the last key is a '1' and 'r' has been
\* pressed total_runs - 1 times.
C28_EventStreamShape ==
    /\ \A i \in 1..Len(LoopEvents) :
          LoopEvents[i] = IF i % 2 = 1 THEN "1" ELSE "r"
    /\ pc = "done" /\ total_runs >= 1 =>
          /\ LoopEvents[Len(LoopEvents)] = "1"
          /\ Presses(LoopEvents, "r") = total_runs - 1
          /\ Presses(LoopEvents, "1") = total_runs

\* the loop has ended after a voided episode and a successful one
C28_Witness ==
    /\ pc = "done"
    /\ Len(hist) = 2
    /\ hist[1].outcome = "void"
    /\ LoopEvents = <<"1", "r", "1">>

\* C29: the simulation application having been started, its close() has
\* been called when main returns, on every exit path: also after an
\* exception raised before data_collection_manager was assigned, and also
\* when the close() of the data logger raised.
C29_SimulationAppClosed ==
    pc = "exited" => simulation_app # "running"

\* C30: successful_grasps is incremented only in an episode during which
\* the state machine was busy after some tick that followed the press of
\* '1'; an episode in which the machine is idle at the first poll because
\* it never took the task is not tallied as a success.
C30_NoStaleSuccess ==
    successful_grasps > ep.succ_at_start => ep.was_busy

===========================================================================
